---- MODULE Spec2Model ----
(***************************************************************************)
(* Webhook ingestion, dispatch and circuit breaker of the FastAPI SaaS     *)
(* platform (app/integrations.py, app/routers/webhooks.py).                *)
(*                                                                         *)
(*   Spec         one caller of CircuitBreaker.call at a time (the event   *)
(*                loop runs the synchronous call to completion)            *)
(*   SpecThreads  several callers of one breaker, no lock                  *)
(*   SpecEvents   the event record store, the webhook endpoints, the       *)
(*                retry endpoint and the background processing tasks       *)
(*   SpecStored   SpecEvents started from stored event records             *)
(*   SpecReliable SpecEvents where every commit succeeds, with fairness    *)
(*   SpecLive     Spec over unbounded time, with fairness                  *)
(*   SpecRace     SpecThreads with the failure increment split into its    *)
(*                read and its store                                       *)
(*   SpecHealth   the integration health probes and their status rows      *)
(***************************************************************************)
EXTENDS Integers, Sequences, FiniteSets, TLC

\* ------------------------------------------------------------------ bounds
MaxThreshold == 5
MaxRecoveryTimeout == 2
MaxTime == 6
MaxCalls == 7
NumThreads == 2
MaxEvents == 2
MaxTasks == 2
MaxSeedRetries == 4
NumWorkers == 2
MaxProbes == 3

\* ------------------------------------------------- schemas.CircuitBreakerState
CLOSED == "closed"
OPEN == "open"
HALF_OPEN == "half_open"

\* last_failure_time = None
NoTime == -1

Threads == 1..NumThreads

VARIABLES
    cb,             \* the CircuitBreaker object: its five attributes
    now,            \* datetime.utcnow(), in ticks
    pc,             \* per caller: "idle" or "in_func" (func is running)
    result,         \* per caller: outcome of its latest call
    trial,          \* per caller: its latest call moved the breaker to HALF_OPEN
    calls,          \* number of calls of CircuitBreaker.call so far
    invocations,    \* number of times func was invoked (the stub's counter)
    failRun,        \* failed invocations completed since the last successful one
    events,         \* the webhook_events table: record id -> row (or NoRow)
    tasks,          \* the background tasks added so far, in order
    response,       \* the HTTP response of the latest request
    seen,           \* per caller: failure_count as _on_failure read it
    breakers,       \* per worker process and processor object: service -> breaker
    integration_status, \* the integration_status table: rows in id order
    probe,          \* per worker process: the health probe it is running
    health,         \* per worker process: what its latest probe returned
    probes          \* number of health probes started so far

cbvars == <<cb, now, pc, result, trial, calls, invocations, failRun>>

evvars == <<events, tasks, response>>

monvars == <<breakers, integration_status, probe, health, probes>>

vars == <<cb, now, pc, result, trial, calls, invocations, failRun,
          events, tasks, response, seen, monvars>>

\* ------------------------------------------------------------ CircuitBreaker

\* CircuitBreaker.__init__
NewCircuitBreaker(failure_threshold, recovery_timeout) ==
    [failure_threshold |-> failure_threshold,
     recovery_timeout  |-> recovery_timeout,
     failure_count     |-> 0,
     last_failure_time |-> NoTime,
     state             |-> CLOSED]

\* CircuitBreaker._should_attempt_reset
should_attempt_reset(b, t) ==
    IF b.last_failure_time = NoTime
    THEN TRUE
    ELSE t - b.last_failure_time > b.recovery_timeout

\* _on_success that forgets to reset the failure counter
on_success_keeps_count(b) ==
    [b EXCEPT !.state = CLOSED]

\* _on_success that resets the counter and leaves the state as it is
on_success_keeps_state(b) ==
    [b EXCEPT !.failure_count = 0]

\* CircuitBreaker._on_success
on_success(b) ==
    [b EXCEPT !.failure_count = 0, !.state = CLOSED]

\* _on_failure whose threshold test is strict (opens one failure late)
on_failure_strict(b, t) ==
    LET n == b.failure_count + 1 IN
    [b EXCEPT !.failure_count = n,
              !.last_failure_time = t,
              !.state = IF n > b.failure_threshold THEN OPEN ELSE @]

\* _on_failure that tests the threshold before counting the failure in
\* the stored counter (opens with one failure too few recorded)
on_failure_early(b, t) ==
    LET n == b.failure_count + 1 IN
    [b EXCEPT !.failure_count = b.failure_count,
              !.last_failure_time = t,
              !.state = IF n >= b.failure_threshold THEN OPEN ELSE @]

\* CircuitBreaker._on_failure
on_failure(b, t) ==
    LET n == b.failure_count + 1 IN
    [b EXCEPT !.failure_count = n,
              !.last_failure_time = t,
              !.state = IF n >= b.failure_threshold THEN OPEN ELSE @]

\* the refusal test with the recovery check inverted
call_rejected_inverted(b, t) ==
    b.state = OPEN /\ should_attempt_reset(b, t)

\* CircuitBreaker.call, lines 27-31: TRUE when the call is refused
call_rejected(b, t) ==
    b.state = OPEN /\ ~should_attempt_reset(b, t)

\* a refusal that is recorded like a failed call
call_refused_as_failure(b, t) == on_failure(b, t)

\* CircuitBreaker.call, lines 30-31: the breaker after a refused call (the
\* exception is raised before the try block, no attribute is assigned)
call_refused(b, t) == b

\* CircuitBreaker.call, lines 27-29: the breaker as func is entered
call_gate(b, t) ==
    IF b.state = OPEN /\ should_attempt_reset(b, t)
    THEN [b EXCEPT !.state = HALF_OPEN]
    ELSE b

\* ------------------------------------------------------------------- actions

InitBreaker ==
    /\ \E ft \in 1..MaxThreshold, rt \in 1..MaxRecoveryTimeout :
          cb = NewCircuitBreaker(ft, rt)
    /\ now = 0
    /\ pc = [t \in Threads |-> "idle"]
    /\ result = [t \in Threads |-> "none"]
    /\ trial = [t \in Threads |-> FALSE]
    /\ calls = 0
    /\ invocations = 0
    /\ failRun = 0
    /\ seen = [t \in Threads |-> 0]

\* time passes (also while func is running)
Tick ==
    /\ now < MaxTime
    /\ now' = now + 1
    /\ UNCHANGED <<cb, pc, result, trial, calls, invocations, failRun>>
    /\ UNCHANGED evvars
    /\ UNCHANGED <<seen, monvars>>

\* CircuitBreaker.call up to the invocation of func (lines 27-34)
CallEnter(t) ==
    /\ pc[t] = "idle"
    /\ calls < MaxCalls
    /\ calls' = calls + 1
    /\ IF call_rejected(cb, now)
       THEN /\ result' = [result EXCEPT ![t] = "circuit_open"]
            /\ trial' = [trial EXCEPT ![t] = FALSE]
            /\ cb' = call_refused(cb, now)
            /\ UNCHANGED <<pc, invocations>>
       ELSE /\ cb' = call_gate(cb, now)
            /\ trial' = [trial EXCEPT ![t] = (cb.state = OPEN)]
            /\ pc' = [pc EXCEPT ![t] = "in_func"]
            /\ invocations' = invocations + 1
            /\ result' = [result EXCEPT ![t] = "running"]
    /\ UNCHANGED <<now, failRun>>
    /\ UNCHANGED evvars
    /\ UNCHANGED <<seen, monvars>>

\* func returns or raises; CircuitBreaker.call lines 35-39
CallReturn(t, ok) ==
    /\ pc[t] = "in_func"
    /\ pc' = [pc EXCEPT ![t] = "idle"]
    /\ IF ok
       THEN /\ cb' = on_success(cb)
            /\ result' = [result EXCEPT ![t] = "ok"]
            /\ failRun' = 0
       ELSE /\ cb' = on_failure(cb, now)
            /\ result' = [result EXCEPT ![t] = "error"]
            /\ failRun' = failRun + 1
    /\ UNCHANGED <<now, trial, calls, invocations>>
    /\ UNCHANGED evvars
    /\ UNCHANGED <<seen, monvars>>

\* ------------------------------------------------------- webhook event store

\* schemas.WebhookStatus
PENDING == "pending"
PROCESSING == "processing"
COMPLETED == "completed"
FAILED == "failed"

\* Python None in a string-valued attribute or payload field
NONE == "<None>"

\* the three webhook endpoints
Sources == {"user_service", "payment_service", "communication_service"}

\* event types the source handlers accept
UserEventTypes == {"user.created", "user.updated", "user.deleted"}
PaymentEventTypes == {"subscription.created", "payment.failed"}
CommunicationEventTypes == {"message.delivered", "message.bounced"}

\* the tenants table: active and inactive tenants
ActiveTenants == {"tenant_001", "tenant_002"}
InactiveTenants == {"tenant_003"}

\* request inputs: a well-formed user.created webhook for tenant_001 and
\* the requests that differ from it in the endpoint and event, in the tenant
\* identity, or by one defect
InEventTypes == {"user.created", "payment.failed", "message.bounced"}
InEventIds == {"evt_1", NONE}
TenantContexts == {NONE, "tenant_001", "tenant_002"}

BaseRequest ==
    [source          |-> "user_service",
     valid_json      |-> TRUE,
     signature_valid |-> TRUE,
     organization_id |-> "tenant_001",
     tenant_id       |-> NONE,
     header          |-> NONE,
     event_type      |-> "user.created",
     event_id        |-> "evt_1",
     data_is_dict    |-> TRUE]

Requests ==
    {[BaseRequest EXCEPT !.source = s, !.event_type = ty, !.data_is_dict = d] :
        s \in Sources, ty \in InEventTypes, d \in BOOLEAN}
    \cup
    {[BaseRequest EXCEPT !.organization_id = o, !.tenant_id = t, !.header = h] :
        o \in {NONE, "tenant_001", "tenant_003", "tenant_999"},
        t \in {NONE, "tenant_002"}, h \in {NONE, "tenant_002"}}
    \cup
    {[BaseRequest EXCEPT !.valid_json = FALSE],
     [BaseRequest EXCEPT !.signature_valid = FALSE],
     [BaseRequest EXCEPT !.event_type = NONE],
     [BaseRequest EXCEPT !.event_id = NONE]}

\* error texts
EventProcessingFailed == "Event processing failed"
CommitErrorText == "(OperationalError) commit failed"

\* the id column: "webhook_" + md5(source + "_" + event_id); the payload's
\* missing event_id is hashed as the empty string
webhook_id(source, event_id) ==
    <<source, IF event_id = NONE THEN "" ELSE event_id>>

\* a value of the source column that no endpoint writes and
\* _process_event_by_type has no branch for
UnknownSource == "billing_service"

RecordIds ==
    {webhook_id(s, e) : s \in Sources \cup {UnknownSource}, e \in InEventIds}

NoRow == [status |-> "absent"]

Rows == {id \in RecordIds : events[id] # NoRow}

\* WebhookEvent(...) with the column defaults
NewWebhookEvent(tenant_id, event_type, event_id, source, data_is_dict) ==
    [tenant_id     |-> tenant_id,
     event_type    |-> event_type,
     event_id      |-> event_id,
     source        |-> source,
     data_is_dict  |-> data_is_dict,
     status        |-> PENDING,
     retry_count   |-> 0,
     max_retries   |-> 3,
     processed_at  |-> NoTime,
     error_message |-> NONE]

\* _extract_tenant_id
extract_tenant_id(organization_id, tenant_id, header) ==
    IF organization_id # NONE THEN organization_id
    ELSE IF tenant_id # NONE THEN tenant_id
    ELSE IF header # NONE THEN header
    ELSE "tenant_001"

\* _verify_webhook_signature
verify_webhook_signature(signature_valid) == TRUE

\* one source handler: "True", "False" (the handler caught an exception
\* raised by event.data.get) or "None" (no branch matches the event type)
process_typed_event(ev, types) ==
    IF ev.event_type \in types
    THEN IF ev.data_is_dict THEN "True" ELSE "False"
    ELSE "None"

\* WebhookProcessor._process_user_event
process_user_event(ev) == process_typed_event(ev, UserEventTypes)

\* WebhookProcessor._process_payment_event
process_payment_event(ev) == process_typed_event(ev, PaymentEventTypes)

\* WebhookProcessor._process_communication_event
process_communication_event(ev) ==
    process_typed_event(ev, CommunicationEventTypes)

\* the dispatch with two handlers exchanged
process_event_by_type_swapped(ev) ==
    IF ev.source = "user_service" THEN process_payment_event(ev)
    ELSE IF ev.source = "payment_service" THEN process_user_event(ev)
    ELSE IF ev.source = "communication_service"
         THEN process_communication_event(ev)
    ELSE "False"

\* the dispatch whose fallback reports success
process_event_by_type_lenient(ev) ==
    IF ev.source = "user_service" THEN process_user_event(ev)
    ELSE IF ev.source = "payment_service" THEN process_payment_event(ev)
    ELSE IF ev.source = "communication_service"
         THEN process_communication_event(ev)
    ELSE "True"

\* WebhookProcessor._process_event_by_type
process_event_by_type(ev) ==
    IF ev.source = "user_service" THEN process_user_event(ev)
    ELSE IF ev.source = "payment_service" THEN process_payment_event(ev)
    ELSE IF ev.source = "communication_service"
         THEN process_communication_event(ev)
    ELSE "False"

\* process_webhook_event, line 188
mark_processing(ev) == [ev EXCEPT !.status = PROCESSING]

\* the outcome branch testing `success is False`: a handler that returned
\* None leaves the row as it is
record_outcome_none_skipped(ev, success, t) ==
    IF success = "True"
    THEN [ev EXCEPT !.status = COMPLETED, !.processed_at = t]
    ELSE IF success = "False"
    THEN [ev EXCEPT !.status = FAILED, !.error_message = EventProcessingFailed]
    ELSE ev

\* the outcome branch without the processed_at assignment
record_outcome_no_timestamp(ev, success, t) ==
    IF success = "True"
    THEN [ev EXCEPT !.status = COMPLETED]
    ELSE [ev EXCEPT !.status = FAILED, !.error_message = EventProcessingFailed]

\* process_webhook_event, lines 194-199
record_outcome(ev, success, t) ==
    IF success = "True"
    THEN [ev EXCEPT !.status = COMPLETED, !.processed_at = t]
    ELSE [ev EXCEPT !.status = FAILED, !.error_message = EventProcessingFailed]

\* process_webhook_event, lines 209-211
record_exception(ev, text) ==
    [ev EXCEPT !.status = FAILED,
               !.error_message = text,
               !.retry_count = @ + 1]

\* the retry update without the status assignment
requeue_keeps_status(ev) ==
    [ev EXCEPT !.retry_count = @ + 1,
               !.error_message = NONE]

\* the retry update that enforces max_retries
requeue_capped(ev) ==
    IF ev.retry_count >= ev.max_retries
    THEN ev
    ELSE [ev EXCEPT !.status = PENDING,
                    !.retry_count = @ + 1,
                    !.error_message = NONE]

\* retry_webhook_event, lines 239-241
requeue(ev) ==
    [ev EXCEPT !.status = PENDING,
               !.retry_count = @ + 1,
               !.error_message = NONE]

\* the exception classes the retry decorator of process_webhook_event
\* retries (httpx.HTTPStatusError, httpx.RequestError), and stop_after_attempt
RetryableErrors == {"HTTPStatusError", "RequestError"}
StopAfterAttempt == 3

\* the class of the error a failed db.commit() raises
CommitError == "SQLAlchemyError"

\* a retry decorator without retry_if_exception_type: any error is retried
should_retry_any(exc, attempts) == attempts < StopAfterAttempt

\* the decision of the retry decorator after an attempt raised exc
should_retry(exc, attempts) ==
    exc \in RetryableErrors /\ attempts < StopAfterAttempt

\* the processing awaited inside the request handler: the task has entered
\* its run when the response is built
NewTask_inline(id) ==
    [event |-> id, pc |-> "processing", ret |-> "none", saved |-> FALSE,
     attempts |-> 1, exc |-> NONE]

\* a background task as added by background_tasks.add_task: attempts counts
\* the runs of the body of process_webhook_event, exc is the error raised
\* in the latest one, ret is what process_webhook_event returned or "raise"
NewTask(id) ==
    [event |-> id, pc |-> "queued", ret |-> "none", saved |-> FALSE,
     attempts |-> 0, exc |-> NONE]

\* an HTTP response; log is the error text written by logger.error
Resp(code, detail) ==
    [code |-> code, detail |-> detail, event_id |-> NONE, log |-> NONE]

\* str(e) of the errors caught in _process_webhook
Log401 == "401: Invalid webhook signature"
Log400 == "400: Tenant ID not found"
Log404 == "404: Tenant not found"
LogDuplicate == "IntegrityError: duplicate key"
LogNull == "IntegrityError: null value"
LogCommit == "OperationalError: commit failed"

\* the insert done as db.merge(event): a row with the same id is overwritten
insert_error_merge(store, id, ev, commit_ok) ==
    IF ev.event_type = NONE \/ ev.event_id = NONE THEN LogNull
    ELSE IF ~commit_ok THEN LogCommit
    ELSE NONE

\* db.add(event); db.commit() of _process_webhook (lines 98-99): the error
\* it raises, or NONE: the INSERT fails on a duplicate primary key and on a
\* NULL in a NOT NULL column
insert_error(store, id, ev, commit_ok) ==
    IF ev.event_type = NONE \/ ev.event_id = NONE THEN LogNull
    ELSE IF store[id] # NoRow THEN LogDuplicate
    ELSE IF ~commit_ok THEN LogCommit
    ELSE NONE

\* the first error raised in the try block of _process_webhook (lines
\* 64-99) after the body was parsed, or NONE
receive_error(store, req, tid, id, ev, commit_ok) ==
    IF ~verify_webhook_signature(req.signature_valid) THEN Log401
    ELSE IF tid = NONE THEN Log400
    ELSE IF tid \notin ActiveTenants THEN Log404
    ELSE insert_error(store, id, ev, commit_ok)

InitEvents ==
    /\ events = [id \in RecordIds |-> NoRow]
    /\ tasks = <<>>
    /\ response = Resp(0, NONE)

\* _process_webhook, one request to the endpoint of req.source
ReceiveWebhook(req, commit_ok) ==
    LET tid == extract_tenant_id(req.organization_id, req.tenant_id, req.header)
        id  == webhook_id(req.source, req.event_id)
        ev  == NewWebhookEvent(tid, req.event_type, req.event_id, req.source,
                               req.data_is_dict)
        err == receive_error(events, req, tid, id, ev, commit_ok)
    IN
    /\ Len(tasks) < MaxTasks
    /\ Cardinality(Rows) < MaxEvents
    /\ IF ~req.valid_json
       THEN /\ response' = Resp(400, "Invalid JSON payload")
            /\ UNCHANGED <<events, tasks>>
       ELSE IF err # NONE
       \* every HTTPException raised inside the try block, and the failed
       \* commit, reach `except Exception` (lines 117-122)
       THEN /\ response' = [Resp(500, "Internal server error") EXCEPT !.log = err]
            /\ UNCHANGED <<events, tasks>>
       ELSE /\ events' = [events EXCEPT ![id] = ev]
            /\ tasks' = Append(tasks, NewTask(id))
            /\ response' = [Resp(200, "accepted") EXCEPT !.event_id = id]
    /\ UNCHANGED cbvars
    /\ UNCHANGED <<seen, monvars>>

\* retry_webhook_event
RetryWebhookEvent(id, ctx, commit_ok) ==
    /\ Len(tasks) < MaxTasks
    /\ IF events[id] = NoRow
       THEN /\ response' = Resp(404, "Webhook event not found")
            /\ UNCHANGED <<events, tasks>>
       ELSE IF ctx # NONE /\ events[id].tenant_id # ctx
       THEN /\ response' = Resp(403, "Access denied")
            /\ UNCHANGED <<events, tasks>>
       ELSE IF ~commit_ok
       THEN /\ response' = Resp(500, "Internal Server Error")
            /\ UNCHANGED <<events, tasks>>
       ELSE /\ events' = [events EXCEPT ![id] = requeue(@)]
            /\ tasks' = Append(tasks, NewTask(id))
            /\ response' = Resp(200, "Webhook event queued for retry")
    /\ UNCHANGED cbvars
    /\ UNCHANGED <<seen, monvars>>

\* the except block without its `raise`: the error is recorded and the
\* method returns False
AfterException_swallowed(ts, k, id, commit2_ok) ==
    /\ events' = IF commit2_ok
                 THEN [events EXCEPT ![id] = record_exception(@, CommitErrorText)]
                 ELSE events
    /\ tasks' = [ts EXCEPT ![k] =
                    [@ EXCEPT !.pc = "done",
                              !.ret = "False",
                              !.saved = commit2_ok,
                              !.exc = CommitError]]

\* the except block of process_webhook_event (lines 204-214) after a failed
\* commit: the row gets the failure only if the second commit succeeds
AfterException(ts, k, id, commit2_ok) ==
    /\ events' = IF commit2_ok
                 THEN [events EXCEPT ![id] = record_exception(@, CommitErrorText)]
                 ELSE events
    /\ tasks' = [ts EXCEPT ![k] =
                    [@ EXCEPT !.pc = IF should_retry(CommitError, ts[k].attempts)
                                     THEN "queued" ELSE "done",
                              !.ret = "raise",
                              !.saved = commit2_ok,
                              !.exc = CommitError]]

\* _process_webhook_background up to the first commit of
\* process_webhook_event (webhooks.py 128-133, integrations.py 181-189)
BeginProcessing(k, commit_ok, commit2_ok) ==
    /\ k \in DOMAIN tasks
    /\ tasks[k].pc = "queued"
    /\ LET id == tasks[k].event
           started == [tasks EXCEPT ![k] =
                          [@ EXCEPT !.attempts = @ + 1, !.exc = NONE]]
       IN
       IF events[id] = NoRow
       THEN /\ tasks' = [tasks EXCEPT ![k].pc = "done"]
            /\ UNCHANGED events
       ELSE IF commit_ok
       THEN /\ events' = [events EXCEPT ![id] = mark_processing(@)]
            /\ tasks' = [started EXCEPT ![k].pc = "processing"]
       ELSE AfterException(started, k, id, commit2_ok)
    /\ UNCHANGED <<response>>
    /\ UNCHANGED cbvars
    /\ UNCHANGED <<seen, monvars>>

\* the handler and the final commit (integrations.py 192-214); the raised
\* error is not one the retry decorator retries and ends in the except
\* clause of _process_webhook_background
FinishProcessing(k, commit_ok, commit2_ok) ==
    /\ k \in DOMAIN tasks
    /\ tasks[k].pc = "processing"
    /\ LET id == tasks[k].event
           success == process_event_by_type(events[id])
       IN
       IF commit_ok
       THEN /\ events' = [events EXCEPT ![id] = record_outcome(@, success, now)]
            /\ tasks' = [tasks EXCEPT ![k] =
                            [@ EXCEPT !.pc = "done", !.ret = success]]
       ELSE AfterException(tasks, k, id, commit2_ok)
    /\ UNCHANGED <<response>>
    /\ UNCHANGED cbvars
    /\ UNCHANGED <<seen, monvars>>

\* ------------------------------------------------------------ health monitor

\* the server processes that serve the application on one database; each
\* imports routers/webhooks.py and so builds its own module-level objects
Workers == 1..NumWorkers

\* the two WebhookProcessor objects of a process, each with its own three
\* clients and breakers: the module-level webhook_processor and the one
\* IntegrationHealthMonitor.__init__ builds as health_monitor.processor
WEBHOOK_PROCESSOR == "webhook_processor"
HEALTH_MONITOR == "health_monitor.processor"
Processors == {WEBHOOK_PROCESSOR, HEALTH_MONITOR}

\* schemas.IntegrationStatusType
HEALTHY == "healthy"
DOWN == "down"

\* the service_name path parameter and the tenant context of a health request
ServiceNames == Sources \cup {UnknownSource}
ProbeTenants == {"tenant_001", "tenant_002"}

\* str(e) of the errors a probe ends with
CircuitOpenText == "Circuit breaker is OPEN"
RunningLoopText == "asyncio.run() cannot be called from a running event loop"

\* _make_request (make_request lines 74-75): asyncio.run is called on the
\* thread of the running event loop and raises RuntimeError before any
\* request is sent, whether the upstream service is up or not
run_request(upstream_ok) == RunningLoopText

\* ExternalServiceClient.make_request through CircuitBreaker.call: the
\* breaker afterwards and "ok" or the text of the error raised
make_request(b, t, upstream_ok) ==
    IF call_rejected(b, t)
    THEN [cb |-> call_refused(b, t), outcome |-> CircuitOpenText]
    ELSE IF run_request(upstream_ok) = "ok"
    THEN [cb |-> on_success(call_gate(b, t)), outcome |-> "ok"]
    ELSE [cb |-> on_failure(call_gate(b, t), t),
          outcome |-> run_request(upstream_ok)]

\* db.query(IntegrationStatus).filter(...).first(): the index of the first
\* row of the pair, 0 when there is none
first_match(rows, tenant_id, service_name) ==
    LET hits == {i \in 1..Len(rows) :
                    /\ rows[i].tenant_id = tenant_id
                    /\ rows[i].service_name = service_name}
    IN IF hits = {} THEN 0
       ELSE CHOOSE i \in hits : \A j \in hits : i <= j

\* check_service_health, lines 334-352: the table after the success branch
\* is committed; p is the probe with the row it loaded
upsert_success(rows, p, live_state) ==
    IF p.found = 0
    THEN Append(rows, [tenant_id             |-> p.tenant,
                       service_name          |-> p.service,
                       status                |-> HEALTHY,
                       success_count         |-> 1,
                       error_count           |-> 0,
                       circuit_breaker_state |-> live_state,
                       last_error            |-> NONE])
    ELSE [rows EXCEPT ![p.found] =
             [@ EXCEPT !.status = HEALTHY,
                       !.success_count = p.loaded_success + 1,
                       !.circuit_breaker_state = live_state,
                       !.last_error = NONE]]

\* the failure branch that records the breaker's live state
upsert_failure_live(rows, p, live_state) ==
    IF p.found = 0
    THEN Append(rows, [tenant_id             |-> p.tenant,
                       service_name          |-> p.service,
                       status                |-> DOWN,
                       success_count         |-> 0,
                       error_count           |-> 1,
                       circuit_breaker_state |-> live_state,
                       last_error            |-> p.outcome])
    ELSE [rows EXCEPT ![p.found] =
             [@ EXCEPT !.status = DOWN,
                       !.error_count = p.loaded_error + 1,
                       !.circuit_breaker_state = live_state,
                       !.last_error = p.outcome]]

\* check_service_health, lines 370-387: the table after the failure branch
\* is committed
upsert_failure(rows, p, live_state) ==
    IF p.found = 0
    THEN Append(rows, [tenant_id             |-> p.tenant,
                       service_name          |-> p.service,
                       status                |-> DOWN,
                       success_count         |-> 0,
                       error_count           |-> 1,
                       circuit_breaker_state |-> OPEN,
                       last_error            |-> p.outcome])
    ELSE [rows EXCEPT ![p.found] =
             [@ EXCEPT !.status = DOWN,
                       !.error_count = p.loaded_error + 1,
                       !.circuit_breaker_state = OPEN,
                       !.last_error = p.outcome]]

IdleProbe ==
    [pc |-> "idle", service |-> NONE, tenant |-> NONE, outcome |-> NONE,
     found |-> 0, loaded_success |-> 0, loaded_error |-> 0,
     upstream_ok |-> FALSE]

\* the dict check_service_health returns
HealthResult(status, error, state) ==
    [status |-> status, error |-> error, circuit_breaker_state |-> state]

\* every client of every processor is built with the configured settings
InitMonitor ==
    /\ breakers = [w \in Workers |-> [o \in Processors |-> [s \in Sources |->
                     NewCircuitBreaker(cb.failure_threshold,
                                       cb.recovery_timeout)]]]
    /\ integration_status = <<>>
    /\ probe = [w \in Workers |-> IdleProbe]
    /\ health = [w \in Workers |-> HealthResult(NONE, NONE, NONE)]
    /\ probes = 0

\* check_service_health up to the query of the status row: the request
\* through the breaker of the monitor's own client (lines 311-323) and the
\* lookup (lines 326-329 or 365-368)
ProbeCall(w, service_name, tenant_id, upstream_ok) ==
    /\ probe[w].pc = "idle"
    /\ probes < MaxProbes
    /\ probes' = probes + 1
    /\ IF service_name \notin DOMAIN breakers[w][HEALTH_MONITOR]
       THEN /\ health' = [health EXCEPT ![w] =
                            HealthResult("unknown", "Service not found", NONE)]
            /\ UNCHANGED <<breakers, probe>>
       ELSE LET r == make_request(breakers[w][HEALTH_MONITOR][service_name],
                                  now, upstream_ok)
                i == first_match(integration_status, tenant_id, service_name)
            IN /\ breakers' = [breakers EXCEPT
                                 ![w][HEALTH_MONITOR][service_name] = r.cb]
               /\ probe' = [probe EXCEPT ![w] =
                    [pc             |-> "loaded",
                     service        |-> service_name,
                     tenant         |-> tenant_id,
                     outcome        |-> r.outcome,
                     found          |-> i,
                     loaded_success |-> IF i = 0 THEN 0
                                        ELSE integration_status[i].success_count,
                     loaded_error   |-> IF i = 0 THEN 0
                                        ELSE integration_status[i].error_count,
                     upstream_ok    |-> upstream_ok]]
               /\ UNCHANGED health
    /\ UNCHANGED integration_status
    /\ UNCHANGED <<cbvars, evvars, seen>>

\* check_service_health from the update of the status row to the return
\* (lines 331-360 or 370-395)
ProbeCommit(w, commit_ok) ==
    /\ probe[w].pc = "loaded"
    /\ LET p    == probe[w]
           live == breakers[w][HEALTH_MONITOR][p.service].state
       IN
       IF ~commit_ok
       THEN /\ health' = [health EXCEPT ![w] =
                            HealthResult("error", CommitErrorText, NONE)]
            /\ UNCHANGED integration_status
       ELSE IF p.outcome = "ok"
       THEN /\ integration_status' =
                   upsert_success(integration_status, p, live)
            /\ health' = [health EXCEPT ![w] =
                            HealthResult(HEALTHY, NONE, live)]
       ELSE /\ integration_status' =
                   upsert_failure(integration_status, p, live)
            /\ health' = [health EXCEPT ![w] =
                            HealthResult(DOWN, p.outcome, OPEN)]
    /\ probe' = [probe EXCEPT ![w] = IdleProbe]
    /\ UNCHANGED <<breakers, probes>>
    /\ UNCHANGED <<cbvars, evvars, seen>>

NextHealth ==
    \/ \E w \in Workers, service_name \in ServiceNames,
          tenant_id \in ProbeTenants, upstream_ok \in BOOLEAN :
          ProbeCall(w, service_name, tenant_id, upstream_ok)
    \/ \E w \in Workers, commit_ok \in BOOLEAN : ProbeCommit(w, commit_ok)

NextEvents ==
    \/ \E req \in Requests, commit_ok \in BOOLEAN :
          ReceiveWebhook(req, commit_ok)
    \/ \E id \in RecordIds, ctx \in TenantContexts, commit_ok \in BOOLEAN :
          RetryWebhookEvent(id, ctx, commit_ok)
    \/ \E k \in 1..MaxTasks, commit_ok \in BOOLEAN, commit2_ok \in BOOLEAN :
          BeginProcessing(k, commit_ok, commit2_ok)
    \/ \E k \in 1..MaxTasks, commit_ok \in BOOLEAN, commit2_ok \in BOOLEAN :
          FinishProcessing(k, commit_ok, commit2_ok)

Caller(t) ==
    \/ CallEnter(t)
    \/ CallReturn(t, TRUE)
    \/ CallReturn(t, FALSE)

Next ==
    \/ Tick
    \/ Caller(1)

Init == InitBreaker /\ InitEvents /\ InitMonitor

Spec == Init /\ [][Next]_vars

NextThreads ==
    \/ Tick
    \/ \E t \in Threads : Caller(t)

SpecThreads == Init /\ [][NextThreads]_vars

\* func raised and _on_failure starts: `self.failure_count += 1` reads the
\* attribute (line 52); no lock is held, another caller may run before the
\* sum is stored
FailureRead(t) ==
    /\ pc[t] = "in_func"
    /\ pc' = [pc EXCEPT ![t] = "on_failure"]
    /\ seen' = [seen EXCEPT ![t] = cb.failure_count]
    /\ UNCHANGED <<cb, now, result, trial, calls, invocations, failRun>>
    /\ UNCHANGED <<evvars, monvars>>

\* the rest of _on_failure (lines 52-56): the sum is stored, the time
\* recorded and the threshold tested
FailureWrite(t) ==
    /\ pc[t] = "on_failure"
    /\ pc' = [pc EXCEPT ![t] = "idle"]
    /\ cb' = on_failure([cb EXCEPT !.failure_count = seen[t]], now)
    /\ result' = [result EXCEPT ![t] = "error"]
    /\ failRun' = failRun + 1
    /\ seen' = [seen EXCEPT ![t] = 0]
    /\ UNCHANGED <<now, trial, calls, invocations>>
    /\ UNCHANGED <<evvars, monvars>>

\* several callers of one breaker, _on_failure taken statement by statement
NextRace ==
    \/ Tick
    \/ \E t \in Threads : CallEnter(t)
    \/ \E t \in Threads : CallReturn(t, TRUE)
    \/ \E t \in Threads : FailureRead(t)
    \/ \E t \in Threads : FailureWrite(t)

SpecRace == Init /\ [][NextRace]_vars

\* datetime.utcnow() has no origin and the stub's counters no limit: the
\* clock and the recorded failure time are moved back together, keeping
\* their distance up to the longest recovery timeout, and the call counters
\* start again
Rebase ==
    /\ now = MaxTime \/ calls = MaxCalls
    /\ LET base == IF now > MaxRecoveryTimeout + 1
                   THEN MaxRecoveryTimeout + 1 ELSE now
           since == now - cb.last_failure_time
       IN /\ now' = base
          /\ cb' = [cb EXCEPT !.last_failure_time =
                       IF @ = NoTime THEN NoTime
                       ELSE IF since >= base THEN 0 ELSE base - since]
    /\ calls' = 0
    /\ invocations' = 0
    /\ UNCHANGED <<pc, result, trial, failRun>>
    /\ UNCHANGED evvars
    /\ UNCHANGED <<seen, monvars>>

\* one caller for ever: func fails at most MaxCalls times in a row
NextLive ==
    \/ Tick
    \/ Rebase
    \/ CallEnter(1)
    \/ CallReturn(1, TRUE)
    \/ (failRun < MaxCalls /\ CallReturn(1, FALSE))

\* time advances, calls keep being issued, func returns, and func succeeds
\* again and again when it is invoked
LiveFairness ==
    /\ WF_vars(Tick)
    /\ WF_vars(Rebase)
    /\ WF_vars(CallEnter(1))
    /\ SF_vars(CallReturn(1, TRUE))

SpecLive == Init /\ [][NextLive]_vars /\ LiveFairness

\* the health endpoints served by every worker process; the breaker
\* settings come from the environment: a threshold of 1 or the largest one
InitHealth ==
    /\ Init
    /\ cb.failure_threshold \in {1, MaxThreshold}
    /\ cb.recovery_timeout = MaxRecoveryTimeout

SpecHealth == InitHealth /\ [][NextHealth]_vars

\* the clients are built with the configured breaker settings
InitConfigured ==
    /\ InitEvents
    /\ InitBreaker
    /\ cb = NewCircuitBreaker(MaxThreshold, MaxRecoveryTimeout)
    /\ InitMonitor

SpecEvents == InitConfigured /\ [][NextEvents]_vars

\* the table already holds one Failed record when the service starts: a row
\* of any source, retried any number of times before
InitStored ==
    /\ InitBreaker
    /\ cb = NewCircuitBreaker(MaxThreshold, MaxRecoveryTimeout)
    /\ \E s \in Sources \cup {UnknownSource}, n \in 0..MaxSeedRetries :
          events = [id \in RecordIds |->
                      IF id = webhook_id(s, "evt_1")
                      THEN [NewWebhookEvent("tenant_001", "user.created",
                                            "evt_1", s, TRUE)
                               EXCEPT !.status = FAILED,
                                      !.retry_count = n,
                                      !.error_message = EventProcessingFailed]
                      ELSE NoRow]
    /\ tasks = <<>>
    /\ response = Resp(0, NONE)
    /\ InitMonitor

SpecStored == InitStored /\ [][NextEvents]_vars

\* the service with a database whose commits all succeed; a background task
\* that was added is run by the event loop, and a run that started finishes
NextReliable ==
    \/ \E req \in Requests : ReceiveWebhook(req, TRUE)
    \/ \E id \in RecordIds, ctx \in TenantContexts :
          RetryWebhookEvent(id, ctx, TRUE)
    \/ \E k \in 1..MaxTasks : BeginProcessing(k, TRUE, TRUE)
    \/ \E k \in 1..MaxTasks : FinishProcessing(k, TRUE, TRUE)

TasksRun ==
    \A k \in 1..MaxTasks :
        /\ WF_vars(BeginProcessing(k, TRUE, TRUE))
        /\ WF_vars(FinishProcessing(k, TRUE, TRUE))

SpecReliable == InitConfigured /\ [][NextReliable]_vars /\ TasksRun

\* ------------------------------------------------- circuit breaker properties

\* recovery_timeout has elapsed since last_failure_time (a failure is recorded)
Elapsed == cb.last_failure_time # NoTime
           /\ now - cb.last_failure_time > cb.recovery_timeout

InFunc == {t \in Threads : pc[t] = "in_func"}

\* the step is a call of caller t that is refused with the circuit-open error
Refused(t) ==
    /\ pc[t] = "idle" /\ pc'[t] = "idle"
    /\ result'[t] = "circuit_open"
    /\ invocations' = invocations

\* C1: a call issued while the breaker is Open and recovery_timeout has not
\* elapsed since last_failure_time is refused with the circuit-open error and
\* does not invoke func; with failure_threshold = 5 the 6th call after 5
\* failed calls is refused with the invocation counter still 5.
C1_OpenFailsFast ==
    [][ /\ (calls' = calls + 1 /\ cb.state = OPEN /\ ~Elapsed)
            => \E t \in Threads : Refused(t)
        /\ (calls' = calls + 1 /\ calls = 5 /\ failRun = 5 /\ ~Elapsed
              /\ cb.failure_threshold = 5)
            => (invocations' = 5 /\ \E t \in Threads : Refused(t))
      ]_vars

\* five failures at threshold 5, then a sixth call that was refused
C1_Witness ==
    /\ cb.failure_threshold = 5 /\ failRun = 5
    /\ calls = 6 /\ invocations = 5
    /\ result[1] = "circuit_open"

\* C2: once failure_threshold or more consecutive invocations have failed
\* the breaker is Open between calls; an Open breaker stays Open through every
\* step taken before recovery_timeout has elapsed; the breaker becomes
\* HalfOpen only from Open, on a call issued after recovery_timeout elapsed.
C2_OpenUntilTimeout ==
    /\ []((failRun >= cb.failure_threshold /\ InFunc = {}) => cb.state = OPEN)
    /\ [][ /\ (cb.state = OPEN /\ ~Elapsed) => cb'.state = OPEN
           /\ (cb.state = OPEN /\ cb'.state # OPEN) => cb'.state = HALF_OPEN
           /\ (cb.state # HALF_OPEN /\ cb'.state = HALF_OPEN)
                => (cb.state = OPEN /\ Elapsed /\ calls' = calls + 1)
         ]_vars

\* more failures than the threshold, breaker Open, a refused call behind it
C2_Witness ==
    /\ failRun > cb.failure_threshold
    /\ cb.state = OPEN
    /\ result[1] = "circuit_open"

\* C3: when the call that runs while the breaker is HalfOpen returns, a
\* success leaves the breaker Closed with failure_count 0 and a failure
\* leaves it Open with last_failure_time set to the time of the failure,
\* for every failure_threshold.
C3_TrialCall ==
    [][ \A t \in Threads :
          (cb.state = HALF_OPEN /\ pc[t] = "in_func" /\ pc'[t] = "idle")
          => /\ result'[t] = "ok"
                 => (cb'.state = CLOSED /\ cb'.failure_count = 0)
             /\ result'[t] = "error"
                 => (cb'.state = OPEN /\ cb'.last_failure_time = now)
             /\ result'[t] \in {"ok", "error"}
      ]_vars

\* a trial call succeeded at a threshold above 1
C3_Witness ==
    /\ trial[1] /\ pc[1] = "idle" /\ result[1] = "ok"
    /\ cb.failure_threshold > 1
    /\ cb.state = CLOSED

C5_OpenImpliesThreshold ==
    /\ cb.state = OPEN => cb.failure_count >= cb.failure_threshold
    /\ calls = 0 => (cb.state = CLOSED /\ cb.failure_count = 0)

\* the breaker has just opened at exactly the threshold
C5_Witness ==
    /\ cb.state = OPEN
    /\ cb.failure_count = cb.failure_threshold
    /\ cb.failure_threshold > 1

\* ---------------------------------------------------- event record properties

\* the step is an accepted retry request for record id
RetryStep(id) ==
    /\ Len(tasks') = Len(tasks) + 1
    /\ tasks'[Len(tasks')].event = id
    /\ response'.detail = "Webhook event queued for retry"

\* the step ends the processing run of task k
RunEnds(k) == tasks[k].pc # "done" /\ tasks'[k].pc = "done" /\ tasks'[k].ret # "none"

Populated(text) == text \notin {NONE, ""}

\* no processing run of record id is between its two commits
Quiet(id) ==
    \A k \in DOMAIN tasks : tasks[k].event = id => tasks[k].pc # "processing"

\* some processing run so far has lost a commit (a persistence failure)
CommitLost ==
    \E k \in DOMAIN tasks : tasks[k].ret = "raise"

\* C6: the status of a record changes only along Pending -> Processing,
\* Processing -> Completed, Processing -> Failed and Failed -> Pending; a
\* record leaves Failed only by a retry request, and a retry request leaves
\* the status of a Completed, Processing or Pending record as it is (runs
\* that lose a commit, and retry requests arriving in the middle of a run of
\* the record together with what that run does afterwards, are left aside).
C6_StatusTransitions ==
    [][ \A id \in Rows :
          LET a == events[id].status
              b == events'[id].status
          IN (/\ ~CommitLost /\ ~CommitLost'
              /\ (a = PROCESSING) <=> ~Quiet(id)
              /\ Quiet(id) \/ ~RetryStep(id))
             => /\ a # b => /\ <<a, b>> \in {<<PENDING, PROCESSING>>,
                                             <<PROCESSING, COMPLETED>>,
                                             <<PROCESSING, FAILED>>,
                                             <<FAILED, PENDING>>}
                            /\ a = FAILED => RetryStep(id)
                /\ (RetryStep(id) /\ a \in {COMPLETED, PROCESSING, PENDING})
                     => b = a
      ]_vars

\* C7: a processing run that ends without a lost commit leaves its record
\* Completed or Failed, and a record is in Processing only while a run that
\* put it there is still going (or after a run of it lost its commits).
C7_ProcessingEnds ==
    /\ [](\A id \in Rows :
            events[id].status = PROCESSING
            => \E k \in DOMAIN tasks :
                  /\ tasks[k].event = id
                  /\ \/ tasks[k].pc = "processing"
                     \/ (tasks[k].ret = "raise" /\ ~tasks[k].saved))
    /\ [][ \A k \in DOMAIN tasks :
             (RunEnds(k) /\ (tasks'[k].ret # "raise" \/ tasks'[k].saved))
             => events'[tasks[k].event].status \in {COMPLETED, FAILED}
         ]_vars

\* a run whose handler matched no event type has ended and left Failed
C7_Witness ==
    \E k \in DOMAIN tasks :
        /\ tasks[k].pc = "done" /\ tasks[k].ret = "None"
        /\ events[tasks[k].event].status = FAILED

\* C8: a Completed record has processed_at set.
C8_CompletedHasProcessedAt ==
    \A id \in Rows :
        events[id].status = COMPLETED => events[id].processed_at # NoTime

\* a run returned True and its record is Completed
C8_Witness ==
    \E k \in DOMAIN tasks :
        /\ tasks[k].pc = "done" /\ tasks[k].ret = "True"
        /\ events[tasks[k].event].status = COMPLETED

\* C9: a Failed record has a non-empty error_message, whether the handler
\* reported failure, the event was unroutable or an error was raised.
C9_FailedHasErrorMessage ==
    \A id \in Rows :
        events[id].status = FAILED => Populated(events[id].error_message)

\* one record failed by a raised error, another by the handler's result
C9_Witness ==
    \E k1, k2 \in DOMAIN tasks :
        /\ tasks[k1].ret = "raise" /\ tasks[k1].saved
        /\ events[tasks[k1].event].status = FAILED
        /\ events[tasks[k1].event].error_message = CommitErrorText
        /\ tasks[k2].ret \in {"False", "None"}
        /\ events[tasks[k2].event].status = FAILED
        /\ events[tasks[k2].event].error_message = EventProcessingFailed

\* C10: a processing run whose handler reports failure, or in which an error
\* is raised (and the failure is committed), leaves the record Failed with
\* error_message populated and retry_count one greater than before.
C10_FailureCountsRetry ==
    [][ \A k \in DOMAIN tasks :
          LET id == tasks[k].event IN
          (RunEnds(k) /\ \/ tasks'[k].ret \in {"False", "None"}
                         \/ (tasks'[k].ret = "raise" /\ tasks'[k].saved))
          => /\ events'[id].status = FAILED
             /\ Populated(events'[id].error_message)
             /\ events'[id].retry_count = events[id].retry_count + 1
      ]_vars

\* ------------------------------------------------------ processing properties

\* the event types the handler of a source has a branch for
HandledTypes(source) ==
    IF source = "user_service" THEN UserEventTypes
    ELSE IF source = "payment_service" THEN PaymentEventTypes
    ELSE IF source = "communication_service" THEN CommunicationEventTypes
    ELSE {}

\* no handler branch takes the event
Unroutable(ev) == ev.event_type \notin HandledTypes(ev.source)

\* the step is the second half of a processing run of task k (the handler
\* and the commit of its outcome)
HandlerStep(k) == tasks[k].pc = "processing" /\ tasks'[k].pc # "processing"

\* C11: a processing run of an event whose source is not a configured source,
\* or whose event type its source's handler has no branch for, ends (when the
\* commits succeed) with the record Failed, error_message non-empty, and
\* process_webhook_event returning a non-success result instead of raising.
C11_UnroutableFails ==
    [][ \A k \in DOMAIN tasks :
          LET id == tasks[k].event IN
          (HandlerStep(k) /\ Unroutable(events[id]) /\ tasks'[k].exc = NONE)
          => /\ tasks'[k].pc = "done"
             /\ tasks'[k].ret \in {"False", "None"}
             /\ events'[id].status = FAILED
             /\ Populated(events'[id].error_message)
      ]_vars

\* a record of an unknown source was processed and is Failed
C11_Witness ==
    \E k \in DOMAIN tasks :
        /\ tasks[k].pc = "done" /\ tasks[k].ret = "False"
        /\ tasks[k].exc = NONE
        /\ events[tasks[k].event].source = UnknownSource
        /\ events[tasks[k].event].status = FAILED
        /\ events[tasks[k].event].error_message = EventProcessingFailed

\* C12: an authorized retry request for a Failed record, whatever its
\* retry_count is relative to max_retries, sets status to Pending, adds
\* exactly 1 to retry_count, clears error_message and queues one processing
\* task for the record; the other fields of the record, the other records
\* and the tasks already queued are as before.
C12_RetryRequeues ==
    [][ \A id \in Rows :
          (RetryStep(id) /\ events[id].status = FAILED)
          => /\ events'[id].status = PENDING
             /\ events'[id].retry_count = events[id].retry_count + 1
             /\ events'[id].error_message = NONE
             /\ \A f \in {"tenant_id", "event_type", "event_id", "source",
                           "data_is_dict", "max_retries", "processed_at"} :
                   events'[id][f] = events[id][f]
             /\ \A o \in RecordIds \ {id} : events'[o] = events[o]
             /\ SubSeq(tasks', 1, Len(tasks)) = tasks
             /\ tasks'[Len(tasks')].pc = "queued"
      ]_vars

\* a record already retried max_retries times or more was requeued again
C12_Witness ==
    \E id \in Rows :
        /\ response.detail = "Webhook event queued for retry"
        /\ events[id].status = PENDING
        /\ events[id].error_message = NONE
        /\ events[id].retry_count > events[id].max_retries
        /\ \E k \in DOMAIN tasks : tasks[k].event = id /\ tasks[k].pc = "queued"

\* C13: one dispatch of process_webhook_event makes at most 3 attempts; an
\* attempt after the first is made only when the attempt before it raised
\* httpx.RequestError or httpx.HTTPStatusError; a dispatch that ended with a
\* non-success result (unknown source, unknown event type, handler failure)
\* was attempted exactly once, and so was any dispatch that has ended.
C13_BoundedRetry ==
    /\ [](\A k \in DOMAIN tasks :
            /\ tasks[k].attempts <= StopAfterAttempt
            /\ (tasks[k].pc = "done" /\ tasks[k].ret \in {"False", "None"})
                  => tasks[k].attempts = 1)
    /\ [][ \A k \in DOMAIN tasks :
             tasks'[k].attempts > tasks[k].attempts
             => /\ tasks'[k].attempts = tasks[k].attempts + 1
                /\ \/ tasks[k].attempts = 0
                   \/ tasks[k].exc \in RetryableErrors
         ]_vars

\* a dispatch that lost a commit and a dispatch whose handler matched no
\* event type have both ended after one attempt
C13_Witness ==
    \E k1, k2 \in DOMAIN tasks :
        /\ tasks[k1].pc = "done" /\ tasks[k1].exc = CommitError
        /\ tasks[k1].attempts = 1
        /\ tasks[k2].pc = "done" /\ tasks[k2].ret = "None"
        /\ tasks[k2].attempts = 1

\* the step ends a processing run of task k that entered the try block
AttemptEnds(k) ==
    tasks[k].pc # "done" /\ tasks'[k].pc = "done" /\ tasks'[k].attempts > 0

\* C14: process_webhook_event raises to its caller exactly when a commit of
\* the record failed in the run; a run without a failed commit returns its
\* result, and when the handler did not report success (it returned False,
\* caught an error of its own, or no branch took the event) the record is
\* left Failed and the result returned is a non-success value.
C14_RaisesOnlyOnPersistenceFailure ==
    [][ \A k \in DOMAIN tasks :
          LET id == tasks[k].event IN
          AttemptEnds(k)
          => /\ (tasks'[k].ret = "raise") <=> (tasks'[k].exc = CommitError)
             /\ tasks'[k].exc = NONE
                  => /\ tasks'[k].ret = process_event_by_type(events[id])
                     /\ tasks'[k].ret # "True"
                          => events'[id].status = FAILED
      ]_vars

\* a run whose handler caught an error returned False with the record
\* Failed, and a run that lost both of its commits raised
C14_Witness ==
    \E k1, k2 \in DOMAIN tasks :
        /\ tasks[k1].pc = "done" /\ tasks[k1].ret = "False"
        /\ tasks[k1].exc = NONE
        /\ ~events[tasks[k1].event].data_is_dict
        /\ events[tasks[k1].event].status = FAILED
        /\ tasks[k2].pc = "done" /\ tasks[k2].ret = "raise"
        /\ tasks[k2].exc = CommitError /\ ~tasks[k2].saved

\* ------------------------------------------------------- receiving properties

\* C15: two submissions with the same (source, event_id) derive the same
\* record id, and a submission whose id is already in the store leaves the
\* store as it was: still one record under that id, with the fields the
\* first submission and its processing gave it, and nothing queued.
C15_NoDuplicateRecord ==
    [][ \A req \in Requests, commit_ok \in BOOLEAN :
          LET id == webhook_id(req.source, req.event_id) IN
          (ReceiveWebhook(req, commit_ok) /\ req.valid_json
             /\ events[id] # NoRow)
          => /\ events' = events
             /\ tasks' = tasks
             /\ \A r2 \in Requests :
                   (r2.source = req.source /\ r2.event_id = req.event_id)
                   => webhook_id(r2.source, r2.event_id) = id
      ]_vars

\* a second submission of a processed event was refused by the primary key
C15_Witness ==
    \E id \in Rows :
        /\ response.code = 500 /\ response.log = LogDuplicate
        /\ events[id].status = COMPLETED
        /\ Rows = {id}

\* the tenant a request resolves to
TenantOf(req) ==
    extract_tenant_id(req.organization_id, req.tenant_id, req.header)

\* a well-formed request of a handled type for an active tenant
HandledRequest(req) ==
    /\ req.valid_json
    /\ req.event_type \in HandledTypes(req.source)
    /\ TenantOf(req) \in ActiveTenants

\* the request is answered as accepted, with the id of its record
Accepted(req) ==
    /\ response'.code = 200
    /\ response'.detail = "accepted"
    /\ response'.event_id = webhook_id(req.source, req.event_id)

NothingStored == events' = events /\ tasks' = tasks

\* C17: a webhook whose resolved tenant id names no tenant, or an inactive
\* one, is answered 404 'Tenant not found'; no record is persisted and no
\* processing is queued.
C17_UnknownTenantIs404 ==
    [][ \A req \in Requests :
          (ReceiveWebhook(req, TRUE) /\ req.valid_json
             /\ TenantOf(req) \notin ActiveTenants)
          => /\ response'.code = 404
             /\ response'.detail = "Tenant not found"
             /\ NothingStored
      ]_vars

\* C18: a webhook with no organization_id, no tenant_id and no X-Tenant-ID
\* header is answered 400 'Tenant ID not found' and no record is persisted
\* for any tenant.
C18_MissingTenantIs400 ==
    [][ \A req \in Requests :
          (ReceiveWebhook(req, TRUE) /\ req.valid_json
             /\ req.organization_id = NONE /\ req.tenant_id = NONE
             /\ req.header = NONE)
          => /\ response'.code = 400
             /\ response'.detail = "Tenant ID not found"
             /\ NothingStored
      ]_vars

\* C19: a webhook whose signature does not validate is answered 401; no
\* record is persisted and no processing is queued.
C19_BadSignatureIs401 ==
    [][ \A req \in Requests :
          (ReceiveWebhook(req, TRUE) /\ req.valid_json
             /\ ~req.signature_valid)
          => /\ response'.code = 401
             /\ NothingStored
      ]_vars

\* the step accepts a webhook and answers with record id
AcceptStep(id) ==
    /\ Len(tasks') = Len(tasks) + 1
    /\ response'.detail = "accepted"
    /\ response'.event_id = id

\* C20: when a webhook is acknowledged as accepted its record, new in the
\* store, is persisted as Pending and its processing is queued but not
\* started: no run of the task has begun and the record is in none of
\* Processing, Completed, Failed; and a processing run only ever starts on
\* a record that is in the store.
C20_PersistedBeforeAck ==
    /\ [][ \A id \in RecordIds :
             AcceptStep(id)
             => /\ events[id] = NoRow
                /\ events'[id].status = PENDING
                /\ tasks'[Len(tasks')].event = id
                /\ tasks'[Len(tasks')].pc = "queued"
                /\ tasks'[Len(tasks')].attempts = 0
         ]_vars
    /\ [](\A k \in DOMAIN tasks :
            tasks[k].attempts > 0 => events[tasks[k].event] # NoRow)

\* the sender has its acknowledgment while the record is still Pending and
\* its task has not begun
C20_Witness ==
    /\ response.detail = "accepted"
    /\ response.event_id \in Rows
    /\ events[response.event_id].status = PENDING
    /\ \E k \in DOMAIN tasks :
          /\ tasks[k].event = response.event_id
          /\ tasks[k].pc = "queued" /\ tasks[k].attempts = 0

\* ------------------------------------------------ further breaker properties

\* C30: a call refused because the breaker is Open leaves failure_count,
\* last_failure_time and state as they were, so the time from which a
\* recovery trial is admitted is the same after the refusal as before it.
C30_RefusalLeavesBreaker ==
    [][ \A t \in Threads :
          Refused(t)
          => /\ cb'.failure_count = cb.failure_count
             /\ cb'.last_failure_time = cb.last_failure_time
             /\ cb'.state = cb.state
             /\ \A at \in 0..MaxTime :
                   call_rejected(cb', at) <=> call_rejected(cb, at)
      ]_vars

\* a call was refused after the failure that opened the breaker, and the
\* breaker still carries the time and count of that failure
C30_Witness ==
    /\ result[1] = "circuit_open"
    /\ cb.state = OPEN
    /\ cb.failure_count = cb.failure_threshold
    /\ cb.last_failure_time = 0
    /\ now = cb.recovery_timeout
    /\ calls = cb.failure_threshold + 2

\* C28: the breaker has no terminal state: whatever state it is in, if calls
\* keep being issued, time advances and func succeeds again and again when
\* it is invoked, the breaker is eventually Closed with failure_count = 0;
\* an Open breaker does not stay Open for ever.
C28_NoTerminalState ==
    \A st \in {CLOSED, OPEN, HALF_OPEN} :
        (cb.state = st) ~> (cb.state = CLOSED /\ cb.failure_count = 0)

\* the breaker was opened by failures, refused a call, and a later call
\* that succeeded has closed it again
C28_Witness ==
    /\ cb.state = CLOSED /\ cb.failure_count = 0
    /\ cb.last_failure_time # NoTime
    /\ trial[1] /\ result[1] = "ok"
    /\ failRun = 0
    /\ cb.failure_threshold > 1
    /\ invocations < calls

\* ------------------------------------------------------- isolation properties

\* the store without the records of tenants other than tid
OwnStore(store, tid) ==
    [id \in RecordIds |->
        IF store[id] # NoRow /\ store[id].tenant_id # tid
        THEN NoRow ELSE store[id]]

\* C21: whether a webhook for an active tenant is accepted and stored, and
\* under which tenant_id, is the same as it would be had the other tenants
\* submitted nothing: the request is answered as it would be against the
\* store holding this tenant's records only.
C21_TenantPartition ==
    [][ \A req \in Requests, commit_ok \in BOOLEAN :
          LET tid == TenantOf(req)
              id  == webhook_id(req.source, req.event_id)
              ev  == NewWebhookEvent(tid, req.event_type, req.event_id,
                                     req.source, req.data_is_dict)
          IN
          (ReceiveWebhook(req, commit_ok) /\ req.valid_json
             /\ tid \in ActiveTenants)
          => /\ (response'.code = 200)
                  <=> receive_error(OwnStore(events, tid), req, tid, id, ev,
                                    commit_ok) = NONE
             /\ response'.code = 200 => events'[id].tenant_id = tid
      ]_vars

\* C27: processing of one event id is never concurrent: no two processing
\* runs of the same record are between their commits at the same time.
C27_SingleProcessing ==
    \A k1, k2 \in DOMAIN tasks :
        (k1 # k2 /\ tasks[k1].event = tasks[k2].event)
        => ~(tasks[k1].pc = "processing" /\ tasks[k2].pc = "processing")

ProbeReturns(w, status) ==
    /\ probe[w].pc = "loaded" /\ probe'[w].pc = "idle"
    /\ health'[w].status = status

\* no other probe has written the pair since worker w's probe looked it up
Fresh(w) ==
    LET p == probe[w] IN
    /\ first_match(integration_status, p.tenant, p.service) = p.found
    /\ p.found # 0
         => /\ integration_status[p.found].error_count = p.loaded_error
            /\ integration_status[p.found].success_count = p.loaded_success

\* the counters of the snapshot of a pair, 0 when it has no row yet
Counters(rows, tenant_id, service_name) ==
    LET i == first_match(rows, tenant_id, service_name) IN
    IF i = 0 THEN [success_count |-> 0, error_count |-> 0]
    ELSE [success_count |-> rows[i].success_count,
          error_count   |-> rows[i].error_count]

\* C22: a probe of a configured service that fails (and whose row no other
\* probe wrote meanwhile) adds exactly 1 to the error_count of the pair's
\* snapshot, leaves success_count as it was, sets status Down and
\* last_error, and records circuit_breaker_state Open in the snapshot and in
\* the returned result whatever the state of the breaker is.
C22_FailedProbeRecorded ==
    [][ \A w \in Workers :
          LET p      == probe[w]
              before == Counters(integration_status, p.tenant, p.service)
              after  == Counters(integration_status', p.tenant, p.service)
              i      == first_match(integration_status', p.tenant, p.service)
          IN
          (ProbeReturns(w, DOWN) /\ Fresh(w))
          => /\ after.error_count = before.error_count + 1
             /\ after.success_count = before.success_count
             /\ i # 0
             /\ integration_status'[i].status = DOWN
             /\ Populated(integration_status'[i].last_error)
             /\ integration_status'[i].circuit_breaker_state = OPEN
             /\ health'[w].circuit_breaker_state = OPEN
      ]_vars

\* a second failed probe of a pair was recorded as Open while the breaker
\* of the probed client is Closed
C22_Witness ==
    \E w \in Workers, i \in DOMAIN integration_status :
        /\ health[w].status = DOWN
        /\ health[w].circuit_breaker_state = OPEN
        /\ integration_status[i].error_count = 2
        /\ integration_status[i].circuit_breaker_state = OPEN
        /\ breakers[w][HEALTH_MONITOR][integration_status[i].service_name].state
             = CLOSED
        /\ breakers[w][HEALTH_MONITOR][integration_status[i].service_name]
             .failure_count = 2

\* C23: a probe of a configured service whose request meets a healthy
\* upstream service and is admitted by the breaker adds exactly 1 to the
\* success_count of the pair's snapshot, leaves error_count as it was, sets
\* status Healthy, clears last_error and records the breaker's live state;
\* and no step lowers the success_count or error_count of a row.
C23_SuccessfulProbeRecorded ==
    [][ /\ \A w \in Workers :
             LET p      == probe[w]
                 before == Counters(integration_status, p.tenant, p.service)
                 after  == Counters(integration_status', p.tenant, p.service)
                 i      == first_match(integration_status', p.tenant, p.service)
             IN
             (/\ p.pc = "loaded" /\ probe'[w].pc = "idle"
              /\ p.upstream_ok /\ p.outcome # CircuitOpenText
              /\ health'[w].status # "error"
              /\ Fresh(w))
             => /\ after.success_count = before.success_count + 1
                /\ after.error_count = before.error_count
                /\ i # 0
                /\ integration_status'[i].status = HEALTHY
                /\ integration_status'[i].last_error = NONE
                /\ integration_status'[i].circuit_breaker_state
                     = breakers[w][HEALTH_MONITOR][p.service].state
        /\ \A i \in DOMAIN integration_status :
             /\ i \in DOMAIN integration_status'
             /\ integration_status'[i].success_count
                  >= integration_status[i].success_count
             /\ integration_status'[i].error_count
                  >= integration_status[i].error_count
      ]_vars

C25_SharedBreaker ==
    \A w \in Workers, s \in Sources :
        breakers[w][WEBHOOK_PROCESSOR][s] = breakers[w][HEALTH_MONITOR][s]

====
